---------------------------- MODULE Spec2Model ----------------------------
(***************************************************************************)
(* go-project-config: the config-package generator (package cfg), its      *)
(* command line (cmd/goprojconfig) and the pure helpers it uses.           *)
(*                                                                         *)
(* Text is modelled as a sequence of one-character strings where the code  *)
(* looks inside it (environment-file lines, keys, identifiers), and as a   *)
(* TLA+ string where the code only builds or compares it (paths, template  *)
(* names, error messages).                                                 *)
(***************************************************************************)
EXTENDS Integers, Sequences, FiniteSets, TLC

VARIABLES
    entry,           \* who started the run: "cli", "api" or "synth" (a direct call of generateStructFromEnvFile)
    packageName,     \* generator.packageName / opts.ConfigPackageName
    envFile,         \* opts.EnvFile, or the envFilePath argument of the API call
    op,              \* the operation running: "none", "default", "fromEnv"
    pc,              \* position in the code
    dirs,            \* directories on disk
    disk,            \* path -> file content
    disk0,           \* the disk as the run found it
    handles,         \* open file handles, as <<role, path>>
    calls,           \* every call made on a provider (gateway, template, formatter, line reader)
    lines,           \* line reader: the lines of the file it scans
    index,           \* line reader: how many lines it has delivered
    lrErr,           \* line reader: what Err() returns
    delivered,       \* the lines Text() has returned
    sb,              \* strings.Builder of generateStructFromEnvFile
    structFromEnvFile, \* value returned by generateStructFromEnvFile
    structValue,     \* templateValues[configStructTemplateName]
    source,          \* formatGoFile: bytes read back from the main file
    generatedFiles,  \* the path list being built
    err,             \* the error being returned
    result,          \* what the operation returned: [files, err]
    stdout,          \* lines printed by main
    exitCode,        \* process exit code, -1 while running
    flagsErr,        \* the error parser.Parse returned to main
    camelIn,         \* argument of a direct toCamelCase call
    camelOut         \* its result

vars == <<entry, packageName, envFile, op, pc, dirs, disk, disk0, handles, calls, lines, index, lrErr, delivered, sb, structFromEnvFile,
          structValue, source, generatedFiles, err, result, stdout, exitCode,
          flagsErr, camelIn, camelOut>>

---------------------------------------------------------------------------
(* Bounds of the model.                                                    *)

\* most lines of an environment file handed to the synthesizer on its own
MaxLines == 2
\* most characters, over all lines, of such a file
MaxChars == 4
\* longest string handed to toCamelCase on its own
MaxStrLen == 5

\* characters of identifiers-to-be: a lower-case letter, an upper-case
\* letter, the token separator and a word break
NameChars == {"a", "B", "_", " "}
\* characters of environment-file lines
LineChars == NameChars \cup {"="}

RECURSIVE StrOfLen(_, _)
StrOfLen(A, n) ==
    IF n = 0 THEN {<<>>}
    ELSE {Append(s, c) : s \in StrOfLen(A, n - 1), c \in A}

StrUpTo(A, n) == UNION {StrOfLen(A, k) : k \in 0..n}

RECURSIVE LineSeqs(_, _)
LineSeqs(budget, k) ==
    IF k = 0 THEN {<<>>}
    ELSE {<<>>} \cup
         UNION {{<<l>> \o r : r \in LineSeqs(budget - Len(l), k - 1)} :
                    l \in StrUpTo(LineChars, budget)}

\* characters of the environment files whole runs are given: a letter, the
\* token separator and '='
EnvChars == {"a", "_", "="}

RECURSIVE EnvLineSeqs(_, _)
EnvLineSeqs(budget, k) ==
    IF k = 0 THEN {<<>>}
    ELSE {<<>>} \cup
         UNION {{<<l>> \o r : r \in EnvLineSeqs(budget - Len(l), k - 1)} :
                    l \in StrUpTo(EnvChars, budget)}

---------------------------------------------------------------------------
(* Constants of the program.                                               *)

configReadFileName == "config.go"
configReaderUnitTestFileName == "config_test.go"
envFileName == ".env"
configReaderMainFileTemplateName == "configReaderMainFile"
configReaderUnitTestFileTemplateName == "configReaderUnitTestFile"
envFileTemplateName == "envFile"

\* the nil error
Nil == "<nil>"

---------------------------------------------------------------------------
(* strings.ToLower, cases.Title, strings.Split, strings.SplitN, Join.      *)

LowerLetters == <<"a","b","c","d","e","f","g","h","i","j","k","l","m",
                  "n","o","p","q","r","s","t","u","v","w","x","y","z">>
UpperLetters == <<"A","B","C","D","E","F","G","H","I","J","K","L","M",
                  "N","O","P","Q","R","S","T","U","V","W","X","Y","Z">>

IsLower(c) == \E i \in 1..26 : LowerLetters[i] = c
IsUpper(c) == \E i \in 1..26 : UpperLetters[i] = c
IsCased(c) == IsLower(c) \/ IsUpper(c)
\* a word break of the Unicode word-break approximation cases.Title uses;
\* '_' joins words (ExtendNumLet) and is never a break
IsBreak(c) == c = " "

LowerChar(c) ==
    IF IsUpper(c)
    THEN LowerLetters[CHOOSE i \in 1..26 : UpperLetters[i] = c]
    ELSE c
UpperChar(c) ==
    IF IsLower(c)
    THEN UpperLetters[CHOOSE i \in 1..26 : LowerLetters[i] = c]
    ELSE c

ToLower(s) == [i \in 1..Len(s) |-> LowerChar(s[i])]

\* cases.Title(language.Und).String(s): the first cased letter of every word
\* is upper-cased, every other cased letter lower-cased, the rest copied.
RECURSIVE TitleFrom(_, _, _)
TitleFrom(s, i, isMidWord) ==
    IF i > Len(s) THEN <<>>
    ELSE LET c == s[i] IN
         IF IsCased(c)
         THEN <<IF isMidWord THEN LowerChar(c) ELSE UpperChar(c)>>
                  \o TitleFrom(s, i + 1, TRUE)
         ELSE <<c>> \o TitleFrom(s, i + 1, isMidWord /\ ~IsBreak(c))

Title(s) == TitleFrom(s, 1, FALSE)

HasSep(s, sep) == \E i \in 1..Len(s) : s[i] = sep
FirstSep(s, sep) == CHOOSE i \in 1..Len(s) :
                        s[i] = sep /\ \A j \in 1..(i - 1) : s[j] # sep

\* strings.SplitN(s, sep, n) for n > 0: at most n parts, the last one
\* holding the unsplit remainder.
RECURSIVE SplitN(_, _, _)
SplitN(s, sep, n) ==
    IF n <= 1 \/ ~HasSep(s, sep) THEN <<s>>
    ELSE LET i == FirstSep(s, sep) IN
         <<SubSeq(s, 1, i - 1)>> \o SplitN(SubSeq(s, i + 1, Len(s)), sep, n - 1)

\* strings.Split(s, sep): every part.
Split(s, sep) == SplitN(s, sep, Len(s) + 1)

RECURSIVE Join(_)
Join(parts) ==
    IF parts = <<>> THEN <<>> ELSE Head(parts) \o Join(Tail(parts))

\* toCamelCase without the split on '_'
toCamelCase_NoSplit(s) == Title(ToLower(s))

toCamelCase(s) ==
    LET parts == Split(s, "_") IN
    Join([i \in 1..Len(parts) |-> Title(ToLower(parts[i]))])

---------------------------------------------------------------------------
(* errors.Wrap / errors.Wrapf, paths, file contents.                       *)

Wrapf(e, msg) == msg \o ": " \o e

\* os.IsExist
IsExist(e) == e = "file exists"

MainFilePath(p) == p \o "/" \o configReadFileName
UnitTestFilePath(p) == p \o "/" \o configReaderUnitTestFileName

\* one line of the text block the synthesizer builds
SbLine(kind) == [kind |-> kind, name |-> <<>>, typ |-> "", key |-> <<>>]
FieldLine(name, typ, key) ==
    [kind |-> "field", name |-> name, typ |-> typ, key |-> key]

\* defaultConfigStructTemplate: one field, SampleEnvVar string
defaultConfigStructTemplate ==
    <<SbLine("comment"), SbLine("open"),
      FieldLine(<<"S","a","m","p","l","e","E","n","v","V","a","r">>, "string",
                <<"S","A","M","P","L","E","_","E","N","V","_","V","A","R">>),
      SbLine("close")>>

\* what a path holds
File(kind, pkg, struct, ls) ==
    [kind |-> kind, pkg |-> pkg, struct |-> struct, lines |-> ls]
Absent == File("absent", "", <<>>, <<>>)
Empty == File("empty", "", <<>>, <<>>)
Old == File("old", "", <<>>, <<>>)
Partial == File("partial", "", <<>>, <<>>)
EnvSrc(ls) == File("envsrc", "", <<>>, ls)

\* the lines a scanner reads from a file (a truncated file has none)
FileLines(f) == f.lines

\* text/template: the template of that name executed with the values
Render(name, pkg, struct) ==
    IF name = configReaderMainFileTemplateName THEN File("main", pkg, struct, <<>>)
    ELSE IF name = configReaderUnitTestFileTemplateName THEN File("test", pkg, <<>>, <<>>)
    ELSE File("sample", "", <<>>, <<>>)

\* go/format: canonical layout, the same text if already canonical
FormatSource(src) ==
    IF src.kind = "main" THEN [src EXCEPT !.kind = "mainFmt"] ELSE src

\* one call on a provider, with the error (or the boolean) it returned
Call(name, arg, res) == <<name, arg, res>>

---------------------------------------------------------------------------
(* generateStructFromEnvFile (cfg.go 183-203), one action per loop turn.   *)

\* lines 184-187: the fixed header
SynthBegin ==
    /\ pc = "synth"
    /\ sb' = <<SbLine("comment"), SbLine("open"), SbLine("todo")>>
    /\ pc' = "scan"
    /\ UNCHANGED <<entry, packageName, envFile, disk0, op, dirs, disk, handles,
                   calls, lines, index, lrErr, delivered,
                   structFromEnvFile, structValue, source, generatedFiles,
                   err, result, stdout, exitCode, flagsErr, camelIn, camelOut>>

\* FieldsOfLine splitting on every '=' (strings.Split for strings.SplitN)
FieldsOfLine_SplitAll(line) ==
    LET parts == Split(line, "=") IN
    IF Len(parts) # 2 THEN <<>>
    ELSE LET key == parts[1] IN
         <<FieldLine(toCamelCase(key), "interface{}", key)>>

\* lines 190-196: what one line adds to the builder
FieldsOfLine(line) ==
    LET parts == SplitN(line, "=", 2) IN
    IF Len(parts) # 2 THEN <<>>
    ELSE LET key == parts[1] IN
         <<FieldLine(toCamelCase(key), "interface{}", key)>>

\* SynthScanLine dropping a line whose key already has a field
SynthScanLine_Dedup ==
    /\ pc = "scan"
    /\ index < Len(lines)
    /\ LET line == lines[index + 1]
           new == FieldsOfLine(line)
       IN
       /\ index' = index + 1
       /\ delivered' = Append(delivered, line)
       /\ sb' = IF new # <<>> /\ \E i \in 1..Len(sb) :
                                    sb[i].kind = "field" /\ sb[i].key = new[1].key
                THEN sb ELSE sb \o new
    /\ calls' = calls \o <<Call("Scan", "", "true"), Call("Text", "", "")>>
    /\ UNCHANGED <<entry, packageName, envFile, disk0, op, pc, dirs, disk, handles,
                   lines, lrErr, structFromEnvFile, structValue,
                   source, generatedFiles, err, result, stdout, exitCode,
                   flagsErr, camelIn, camelOut>>

\* lines 188-197: Scan() returned true
SynthScanLine ==
    /\ pc = "scan"
    /\ index < Len(lines)
    /\ LET line == lines[index + 1] IN
       /\ index' = index + 1
       /\ delivered' = Append(delivered, line)
       /\ sb' = sb \o FieldsOfLine(line)
    /\ calls' = calls \o <<Call("Scan", "", "true"), Call("Text", "", "")>>
    /\ UNCHANGED <<entry, packageName, envFile, disk0, op, pc, dirs, disk, handles,
                   lines, lrErr, structFromEnvFile, structValue,
                   source, generatedFiles, err, result, stdout, exitCode,
                   flagsErr, camelIn, camelOut>>

\* SynthScanEnd returning the block whatever Err() says
SynthScanEnd_ErrUnchecked ==
    /\ pc = "scan"
    /\ \E e \in {Nil, "read error"} :
          /\ (e = Nil => index = Len(lines))
          /\ lrErr' = e
          /\ calls' = calls \o <<Call("Scan", "", "false"), Call("Err", "", e)>>
          /\ sb' = Append(sb, SbLine("close"))
          /\ structFromEnvFile' = sb'
          /\ err' = Nil
    /\ pc' = "synthRet"
    /\ UNCHANGED <<entry, packageName, envFile, disk0, op, dirs, disk, handles,
                   lines, index, delivered, structValue, source,
                   generatedFiles, result, stdout, exitCode, flagsErr, camelIn, camelOut>>

\* lines 188, 198-202: Scan() returned false, at the end of the input or
\* on a read fault (anywhere in the input), then Err()
SynthScanEnd ==
    /\ pc = "scan"
    /\ \E e \in {Nil, "read error"} :
          /\ (e = Nil => index = Len(lines))
          /\ lrErr' = e
          /\ calls' = calls \o <<Call("Scan", "", "false"), Call("Err", "", e)>>
          /\ sb' = Append(sb, SbLine("close"))
          /\ IF e # Nil
             THEN /\ structFromEnvFile' = <<>>
                  /\ err' = Wrapf(e, "scanning")
             ELSE /\ structFromEnvFile' = sb'
                  /\ err' = Nil
    /\ pc' = "synthRet"
    /\ UNCHANGED <<entry, packageName, envFile, disk0, op, dirs, disk, handles,
                   lines, index, delivered, structValue, source,
                   generatedFiles, result, stdout, exitCode, flagsErr, camelIn, camelOut>>

\* toCamelCase called on its own
CamelCall ==
    /\ pc = "camel"
    /\ camelOut' = toCamelCase(camelIn)
    /\ pc' = "camelRet"
    /\ UNCHANGED <<entry, packageName, envFile, disk0, op, dirs, disk, handles,
                   calls, lines, index, lrErr, delivered, sb,
                   structFromEnvFile, structValue, source, generatedFiles,
                   err, result, stdout, exitCode, flagsErr, camelIn>>

\* the state before anything ran, given the arguments and the disk
Start(e, p, f, at, d, dk, ls, s) ==
    /\ entry = e
    /\ packageName = p
    /\ envFile = f
    /\ op = "none"
    /\ pc = at
    /\ dirs = d
    /\ disk = dk
    /\ disk0 = dk
    /\ handles = {}
    /\ calls = <<>>
    /\ lines = ls
    /\ index = 0
    /\ lrErr = Nil
    /\ delivered = <<>>
    /\ sb = <<>>
    /\ structFromEnvFile = <<>>
    /\ structValue = <<>>
    /\ source = Absent
    /\ generatedFiles = <<>>
    /\ err = Nil
    /\ result = [files |-> <<>>, err |-> Nil]
    /\ stdout = <<>>
    /\ exitCode = -1
    /\ flagsErr = Nil
    /\ camelIn = s
    /\ camelOut = <<>>

NoDisk == [p \in {} |-> Absent]

\* the synthesizer over every small environment file
InitSynth ==
    \E ls \in LineSeqs(MaxChars, MaxLines) :
        Start("synth", "", "", "synth", {}, NoDisk, ls, <<>>)
NextSynth == SynthBegin \/ SynthScanLine \/ SynthScanEnd
SpecSynth == InitSynth /\ [][NextSynth]_vars

\* toCamelCase over every small string
InitCamel ==
    \E s \in StrUpTo(NameChars, MaxStrLen) :
        Start("camel", "", "", "camel", {}, NoDisk, <<>>, s)
NextCamel == CamelCall
SpecCamel == InitCamel /\ [][NextCamel]_vars

---------------------------------------------------------------------------
(* The generator (cfg.go 64-234, formatGoFile) and main, one action per    *)
(* provider call.  A provider is an interface: each call either does what  *)
(* the production implementation does or fails with an injected fault.     *)

argVars == <<entry, packageName, envFile, disk0>>
readerVars == <<lines, index, lrErr, delivered, sb, structFromEnvFile>>
cliVars == <<stdout, exitCode, flagsErr>>
camelVars == <<camelIn, camelOut>>

\* the envFilePath argument of generateConfigReaderMainFile (cfg.go 86, 105)
envFilePathArg == IF op = "default" THEN "" ELSE envFile

\* main.go 29-44: parser.Parse and the type switch on its error.  The error
\* is a flags.ErrorType value (ErrHelp or another) or of some other type.
ParseFlags ==
    /\ pc = "main"
    /\ entry = "cli"
    /\ \E e \in {Nil, "ErrHelp", "ErrRequired", "*flags.Error"} :
          /\ flagsErr' = e
          /\ CASE e = Nil ->
                    /\ pc' = "run"
                    /\ UNCHANGED <<stdout, exitCode>>
               [] e = "ErrHelp" ->
                    /\ stdout' = Append(stdout, e)
                    /\ exitCode' = 0
                    /\ pc' = "exited"
               [] e = "ErrRequired" ->
                    /\ stdout' = Append(stdout, e)
                    /\ exitCode' = 1
                    /\ pc' = "exited"
               [] OTHER ->
                    /\ stdout' = stdout
                    /\ exitCode' = 1
                    /\ pc' = "exited"
    /\ UNCHANGED <<argVars, op, dirs, disk, handles, calls,
                   readerVars, structValue, source, generatedFiles, err,
                   result, camelVars>>

\* run ignoring the env-file option
Run_AlwaysDefault ==
    /\ pc = "run"
    /\ op' = "default"
    /\ pc' = "mkdir"
    /\ UNCHANGED <<argVars, dirs, disk, handles, calls, readerVars,
                   structValue, source, generatedFiles, err, result, cliVars,
                   camelVars>>

\* main.go 20-26: run
Run ==
    /\ pc = "run"
    /\ op' = IF envFile # "" THEN "fromEnv" ELSE "default"
    /\ pc' = "mkdir"
    /\ UNCHANGED <<argVars, dirs, disk, handles, calls, readerVars,
                   structValue, source, generatedFiles, err, result, cliVars,
                   camelVars>>

\* cfg.go 64-65: a caller of the package calls GenerateConfigPackage
GenerateConfigPackage ==
    /\ pc = "main"
    /\ entry = "api"
    /\ op' = "default"
    /\ pc' = "mkdir"
    /\ UNCHANGED <<argVars, dirs, disk, handles, calls, readerVars,
                   structValue, source, generatedFiles, err, result, cliVars,
                   camelVars>>

\* cfg.go 72-73: a caller of the package calls
\* GenerateConfigPackageFromEnvFile(envFile)
GenerateConfigPackageFromEnvFile ==
    /\ pc = "main"
    /\ entry = "api"
    /\ op' = "fromEnv"
    /\ pc' = "mkdir"
    /\ UNCHANGED <<argVars, dirs, disk, handles, calls, readerVars,
                   structValue, source, generatedFiles, err, result, cliVars,
                   camelVars>>

\* cfg.go 64, 72: a caller of the package picks either method of Generator
ApiCall == GenerateConfigPackage \/ GenerateConfigPackageFromEnvFile

\* cfg.go 64-65: the caller calls GenerateConfigPackage a second time on
\* the same Generator, on the disk the call before left
GenerateConfigPackageAgain ==
    /\ pc = "done"
    /\ entry = "api"
    /\ op = "default"
    /\ pc' = "mkdir"
    /\ disk0' = disk
    /\ calls' = <<>>
    /\ structValue' = <<>>
    /\ source' = Absent
    /\ generatedFiles' = <<>>
    /\ err' = Nil
    /\ result' = [files |-> <<>>, err |-> Nil]
    /\ UNCHANGED <<entry, packageName, envFile, op, dirs, disk, handles,
                   readerVars, cliVars, camelVars>>

\* fs.go 88-90: os.Mkdir fails with "file exists" on an existing directory
MkdirResult(d) == IF d \in dirs THEN "file exists" ELSE Nil

\* Mkdir without the os.IsExist exemption
Mkdir_AnyErrorFatal ==
    /\ pc = "mkdir"
    /\ \E e \in {MkdirResult(packageName), "mkdir error"} :
          /\ calls' = Append(calls, Call("Mkdir", packageName, e))
          /\ dirs' = IF e = Nil THEN dirs \cup {packageName} ELSE dirs
          /\ IF e # Nil
             THEN /\ err' = Wrapf(e, "creating dir " \o packageName)
                  /\ pc' = "return"
             ELSE /\ err' = Nil
                  /\ pc' = "createMain"
    /\ UNCHANGED <<argVars, op, disk, handles, readerVars,
                   structValue, source, generatedFiles, result, cliVars,
                   camelVars>>

\* Mkdir with every error of the gateway ignored
Mkdir_ErrorIgnored ==
    /\ pc = "mkdir"
    /\ \E e \in {MkdirResult(packageName), "mkdir error"} :
          /\ calls' = Append(calls, Call("Mkdir", packageName, e))
          /\ dirs' = IF e = Nil THEN dirs \cup {packageName} ELSE dirs
    /\ err' = Nil
    /\ pc' = "createMain"
    /\ UNCHANGED <<argVars, op, disk, handles, readerVars,
                   structValue, source, generatedFiles, result, cliVars,
                   camelVars>>

\* cfg.go 83-85, 102-104
Mkdir ==
    /\ pc = "mkdir"
    /\ \E e \in {MkdirResult(packageName), "mkdir error"} :
          /\ calls' = Append(calls, Call("Mkdir", packageName, e))
          /\ dirs' = IF e = Nil THEN dirs \cup {packageName} ELSE dirs
          /\ IF e # Nil /\ ~IsExist(e)
             THEN /\ err' = Wrapf(e, "creating dir " \o packageName)
                  /\ pc' = "return"
             ELSE /\ err' = Nil
                  /\ pc' = "createMain"
    /\ UNCHANGED <<argVars, op, disk, handles, readerVars,
                   structValue, source, generatedFiles, result, cliVars,
                   camelVars>>

\* Create leaving the content of a file that is already there
Create_NoTruncate(role, path, okPc, failPc) ==
    \E e \in {Nil, "create error"} :
          /\ calls' = Append(calls, Call("Create", path, e))
          /\ IF e # Nil
             THEN /\ err' = Wrapf(e, "creating file " \o path)
                  /\ pc' = failPc
                  /\ UNCHANGED <<disk, handles>>
             ELSE /\ disk' = IF disk[path].kind = "absent"
                             THEN [disk EXCEPT ![path] = Empty] ELSE disk
                  /\ handles' = handles \cup {<<role, path>>}
                  /\ pc' = okPc
                  /\ err' = Nil

\* fs.go 68-70 behind cfg.go 124, 141, 208: os.Create truncates or creates
Create(role, path, okPc, failPc) ==
    \E e \in {Nil, "create error"} :
          /\ calls' = Append(calls, Call("Create", path, e))
          /\ IF e # Nil
             THEN /\ err' = Wrapf(e, "creating file " \o path)
                  /\ pc' = failPc
                  /\ UNCHANGED <<disk, handles>>
             ELSE /\ disk' = [disk EXCEPT ![path] = Empty]
                  /\ handles' = handles \cup {<<role, path>>}
                  /\ pc' = okPc
                  /\ err' = Nil

\* cfg.go 224-228: templateProcessorProvider.Parse
ParseTemplate(name, okPc, failPc) ==
    \E e \in {Nil, "parse error"} :
          /\ calls' = Append(calls, Call("Parse", name, e))
          /\ IF e # Nil
             THEN /\ err' = Wrapf(e, "parsing template " \o name)
                  /\ pc' = failPc
             ELSE /\ err' = Nil
                  /\ pc' = okPc

\* cfg.go 229-233: tmplExecutor.Execute writes the rendered text to the file;
\* a failed execution may have written part of it
ExecuteTemplate(name, path, struct, okPc, failPc) ==
    \E e \in {Nil, "execute error"} :
          /\ calls' = Append(calls, Call("Execute", name, e))
          /\ IF e # Nil
             THEN /\ err' = Wrapf(e, "executing template " \o name)
                  /\ pc' = failPc
                  /\ \E c \in {disk[path], Partial} :
                        disk' = [disk EXCEPT ![path] = c]
             ELSE /\ err' = Nil
                  /\ pc' = okPc
                  /\ disk' = [disk EXCEPT ![path] = Render(name, packageName, struct)]

\* a deferred Close (cfg.go 128, 145, 173, 212); its error is dropped
Close(role, path) ==
    /\ handles' = handles \ {<<role, path>>}
    /\ \E e \in {Nil, "close error"} :
          calls' = Append(calls, Call("Close", path, e))

\* cfg.go 140-147
CreateMainFile ==
    /\ pc = "createMain"
    /\ Create("main", MainFilePath(packageName),
              IF envFilePathArg # "" THEN "openEnv" ELSE "parseMain", "return")
    /\ structValue' = defaultConfigStructTemplate
    /\ UNCHANGED <<argVars, op, dirs, readerVars, source,
                   generatedFiles, result, cliVars, camelVars>>

\* OpenEnvFile falling back to the default struct when the open fails
OpenEnvFile_FallsBack ==
    /\ pc = "openEnv"
    /\ \E e \in {IF disk[envFile].kind = "absent" THEN "no such file" ELSE Nil,
                 "open error"} :
          IF e # Nil
          THEN /\ pc' = "parseMain"
               /\ calls' = Append(calls, Call("Open", envFile, e))
               /\ UNCHANGED <<handles, lines>>
          ELSE /\ pc' = "synth"
               /\ handles' = handles \cup {<<"envsrc", envFile>>}
               /\ lines' = FileLines(disk[envFile])
               /\ calls' = calls \o <<Call("Open", envFile, Nil),
                                        Call("lr", envFile, "")>>
    /\ err' = Nil
    /\ UNCHANGED <<argVars, op, dirs, disk, index, lrErr, delivered,
                   sb, structFromEnvFile, structValue, source, generatedFiles,
                   result, cliVars, camelVars>>

\* cfg.go 169-174: fsProvider.Open (fs.go 63-66) and lr(envFile)
OpenEnvFile ==
    /\ pc = "openEnv"
    /\ \E e \in {IF disk[envFile].kind = "absent" THEN "no such file" ELSE Nil,
                 "open error"} :
          IF e # Nil
          THEN /\ err' = Wrapf(e, "opening env file " \o envFile)
               /\ pc' = "closeMain"
               /\ calls' = Append(calls, Call("Open", envFile, e))
               /\ UNCHANGED <<handles, lines>>
          ELSE /\ err' = Nil
               /\ pc' = "synth"
               /\ handles' = handles \cup {<<"envsrc", envFile>>}
               /\ lines' = FileLines(disk[envFile])
               /\ calls' = calls \o <<Call("Open", envFile, Nil),
                                        Call("lr", envFile, "")>>
    /\ UNCHANGED <<argVars, op, dirs, disk, index, lrErr, delivered,
                   sb, structFromEnvFile, structValue, source, generatedFiles,
                   result, cliVars, camelVars>>

\* StructFromEnvFileReturn without the deferred Close of the environment file
StructFromEnvFileReturn_NoClose ==
    /\ pc = "synthRet"
    /\ entry # "synth"
    /\ IF err # Nil
       THEN /\ err' = Wrapf(err, "generating struct from env file " \o envFile)
            /\ pc' = "closeMain"
            /\ UNCHANGED structValue
       ELSE /\ err' = Nil
            /\ pc' = "parseMain"
            /\ structValue' = structFromEnvFile
    /\ UNCHANGED <<argVars, op, dirs, disk, handles, calls, readerVars, source,
                   generatedFiles, result, cliVars, camelVars>>

\* cfg.go 173-178 and 149-152: generateStructFromEnvFile has returned
StructFromEnvFileReturn ==
    /\ pc = "synthRet"
    /\ entry # "synth"
    /\ Close("envsrc", envFile)
    /\ IF err # Nil
       THEN /\ err' = Wrapf(err, "generating struct from env file " \o envFile)
            /\ pc' = "closeMain"
            /\ UNCHANGED structValue
       ELSE /\ err' = Nil
            /\ pc' = "parseMain"
            /\ structValue' = structFromEnvFile
    /\ UNCHANGED <<argVars, op, dirs, disk, readerVars, source, generatedFiles,
                   result, cliVars, camelVars>>

\* cfg.go 154-159
ParseMainTemplate ==
    /\ pc = "parseMain"
    /\ ParseTemplate(configReaderMainFileTemplateName, "execMain", "closeMain")
    /\ UNCHANGED <<argVars, op, dirs, disk, handles, readerVars,
                   structValue, source, generatedFiles, result, cliVars,
                   camelVars>>

ExecuteMainTemplate ==
    /\ pc = "execMain"
    /\ ExecuteTemplate(configReaderMainFileTemplateName,
                       MainFilePath(packageName), structValue, "readMain",
                       "closeMain")
    /\ UNCHANGED <<argVars, op, dirs, handles, readerVars,
                   structValue, source, generatedFiles, result, cliVars,
                   camelVars>>

\* formatGoFile: fsProvider.ReadFile
ReadMainFile ==
    /\ pc = "readMain"
    /\ \E e \in {Nil, "read error"} :
        /\ calls' = Append(calls, Call("ReadFile", MainFilePath(packageName), e))
        /\ IF e # Nil
          THEN /\ err' = Wrapf(e, "reading go file " \o MainFilePath(packageName))
               /\ pc' = "closeMain"
               /\ UNCHANGED source
          ELSE /\ err' = Nil
               /\ pc' = "format"
               /\ source' = disk[MainFilePath(packageName)]
    /\ UNCHANGED <<argVars, op, dirs, disk, handles, readerVars,
                   structValue, generatedFiles, result, cliVars, camelVars>>

\* FormatMainFile going on to the write when the formatter failed
FormatMainFile_ErrorDropped ==
    /\ pc = "format"
    /\ \E e \in {Nil, "source error"} :
        /\ calls' = Append(calls, Call("Source", MainFilePath(packageName), e))
        /\ err' = Nil
        /\ pc' = "writeMain"
        /\ source' = IF e = Nil THEN FormatSource(source) ELSE source
    /\ UNCHANGED <<argVars, op, dirs, disk, handles, readerVars,
                   structValue, generatedFiles, result, cliVars, camelVars>>

\* formatGoFile: formatterProvider.Source
FormatMainFile ==
    /\ pc = "format"
    /\ \E e \in {Nil, "source error"} :
        /\ calls' = Append(calls, Call("Source", MainFilePath(packageName), e))
        /\ IF e # Nil
          THEN /\ err' = Wrapf(e, "formating go file " \o MainFilePath(packageName))
               /\ pc' = "closeMain"
               /\ UNCHANGED source
          ELSE /\ err' = Nil
               /\ pc' = "writeMain"
               /\ source' = FormatSource(source)
    /\ UNCHANGED <<argVars, op, dirs, disk, handles, readerVars,
                   structValue, generatedFiles, result, cliVars, camelVars>>

\* WriteMainFile with the error of WriteFile unchecked
WriteMainFile_ErrorDropped ==
    /\ pc = "writeMain"
    /\ pc' = "closeMain"
    /\ err' = Nil
    /\ \E e \in {Nil, "write error"} :
        /\ calls' = Append(calls, Call("WriteFile", MainFilePath(packageName), e))
        /\ disk' = [disk EXCEPT ![MainFilePath(packageName)] =
                        IF e = Nil THEN source ELSE Empty]
    /\ UNCHANGED <<argVars, op, dirs, handles, readerVars,
                   structValue, source, generatedFiles, result, cliVars,
                   camelVars>>

\* formatGoFile: fsProvider.WriteFile; a failed write may have truncated
WriteMainFile ==
    /\ pc = "writeMain"
    /\ pc' = "closeMain"
    /\ \E e \in {Nil, "write error"} :
        /\ calls' = Append(calls, Call("WriteFile", MainFilePath(packageName), e))
        /\ IF e # Nil
          THEN /\ err' = Wrapf(e, "writing go file " \o MainFilePath(packageName))
               /\ \E c \in {disk[MainFilePath(packageName)], Empty} :
                     disk' = [disk EXCEPT ![MainFilePath(packageName)] = c]
          ELSE /\ err' = Nil
               /\ disk' = [disk EXCEPT ![MainFilePath(packageName)] = source]
    /\ UNCHANGED <<argVars, op, dirs, handles, readerVars,
                   structValue, source, generatedFiles, result, cliVars,
                   camelVars>>

\* CloseMainFile removing the main file when the run has failed
CloseMainFile_RemovesOnError ==
    /\ pc = "closeMain"
    /\ Close("main", MainFilePath(packageName))
    /\ IF err # Nil
       THEN /\ pc' = "return"
            /\ disk' = [disk EXCEPT ![MainFilePath(packageName)] = Absent]
            /\ UNCHANGED generatedFiles
       ELSE /\ pc' = "createTest"
            /\ disk' = disk
            /\ generatedFiles' = Append(generatedFiles, MainFilePath(packageName))
    /\ UNCHANGED <<argVars, op, dirs, readerVars, structValue, source,
                   err, result, cliVars, camelVars>>

\* cfg.go 145, 163 and 87-90, 106-109: the main file's deferred Close, and
\* the caller's check of the result
CloseMainFile ==
    /\ pc = "closeMain"
    /\ Close("main", MainFilePath(packageName))
    /\ IF err # Nil
       THEN /\ pc' = "return"
            /\ UNCHANGED generatedFiles
       ELSE /\ pc' = "createTest"
            /\ generatedFiles' = Append(generatedFiles, MainFilePath(packageName))
    /\ UNCHANGED <<argVars, op, dirs, disk, readerVars, structValue, source,
                   err, result, cliVars, camelVars>>

\* cfg.go 207-211
CreateTestFile ==
    /\ pc = "createTest"
    /\ Create("test", UnitTestFilePath(packageName), "parseTest", "return")
    /\ UNCHANGED <<argVars, op, dirs, readerVars, structValue,
                   source, generatedFiles, result, cliVars, camelVars>>

\* cfg.go 213-218
ParseTestTemplate ==
    /\ pc = "parseTest"
    /\ ParseTemplate(configReaderUnitTestFileTemplateName, "execTest", "closeTest")
    /\ UNCHANGED <<argVars, op, dirs, disk, handles, readerVars,
                   structValue, source, generatedFiles, result, cliVars,
                   camelVars>>

ExecuteTestTemplate ==
    /\ pc = "execTest"
    /\ ExecuteTemplate(configReaderUnitTestFileTemplateName,
                       UnitTestFilePath(packageName), <<>>, "closeTest",
                       "closeTest")
    /\ UNCHANGED <<argVars, op, dirs, handles, readerVars,
                   structValue, source, generatedFiles, result, cliVars,
                   camelVars>>

\* CloseTestFile returning after the test file in both operations
CloseTestFile_NoEnvFile ==
    /\ pc = "closeTest"
    /\ Close("test", UnitTestFilePath(packageName))
    /\ pc' = "return"
    /\ generatedFiles' = IF err # Nil THEN generatedFiles
                         ELSE Append(generatedFiles, UnitTestFilePath(packageName))
    /\ UNCHANGED <<argVars, op, dirs, disk, readerVars, structValue, source,
                   err, result, cliVars, camelVars>>

\* cfg.go 212, 219 and 91-96, 110-114
CloseTestFile ==
    /\ pc = "closeTest"
    /\ Close("test", UnitTestFilePath(packageName))
    /\ IF err # Nil
       THEN /\ pc' = "return"
            /\ UNCHANGED generatedFiles
       ELSE /\ pc' = IF op = "default" THEN "createEnv" ELSE "return"
            /\ generatedFiles' = Append(generatedFiles, UnitTestFilePath(packageName))
    /\ UNCHANGED <<argVars, op, dirs, disk, readerVars, structValue, source,
                   err, result, cliVars, camelVars>>

\* CreateEnvFile keeping a sample file that is already there
CreateEnvFile_KeepsExisting ==
    /\ pc = "createEnv"
    /\ IF disk[envFileName].kind # "absent"
       THEN /\ pc' = "return"
            /\ generatedFiles' = Append(generatedFiles, envFileName)
            /\ UNCHANGED <<disk, handles, calls, err>>
       ELSE /\ Create("sample", envFileName, "parseEnv", "return")
            /\ UNCHANGED generatedFiles
    /\ UNCHANGED <<argVars, op, dirs, readerVars, structValue,
                   source, result, cliVars, camelVars>>

\* cfg.go 124-127
CreateEnvFile ==
    /\ pc = "createEnv"
    /\ Create("sample", envFileName, "parseEnv", "return")
    /\ UNCHANGED <<argVars, op, dirs, readerVars, structValue,
                   source, generatedFiles, result, cliVars, camelVars>>

\* cfg.go 129-134
ParseEnvTemplate ==
    /\ pc = "parseEnv"
    /\ ParseTemplate(envFileTemplateName, "execEnv", "closeEnv")
    /\ UNCHANGED <<argVars, op, dirs, disk, handles, readerVars,
                   structValue, source, generatedFiles, result, cliVars,
                   camelVars>>

ExecuteEnvTemplate ==
    /\ pc = "execEnv"
    /\ ExecuteTemplate(envFileTemplateName, envFileName, <<>>, "closeEnv",
                       "closeEnv")
    /\ UNCHANGED <<argVars, op, dirs, handles, readerVars,
                   structValue, source, generatedFiles, result, cliVars,
                   camelVars>>

\* CloseEnvFile returning the error of Close
CloseEnvFile_ErrorSurfaced ==
    /\ pc = "closeEnv"
    /\ handles' = handles \ {<<"sample", envFileName>>}
    /\ \E e \in {Nil, "close error"} :
          /\ calls' = Append(calls, Call("Close", envFileName, e))
          /\ err' = IF err = Nil /\ e # Nil
                    THEN Wrapf(e, "closing file " \o envFileName) ELSE err
    /\ pc' = "return"
    /\ generatedFiles' = IF err' # Nil THEN generatedFiles
                         ELSE Append(generatedFiles, envFileName)
    /\ UNCHANGED <<argVars, op, dirs, disk, readerVars, structValue, source,
                   result, cliVars, camelVars>>

\* cfg.go 128, 135 and 115-118
CloseEnvFile ==
    /\ pc = "closeEnv"
    /\ Close("sample", envFileName)
    /\ pc' = "return"
    /\ generatedFiles' = IF err # Nil THEN generatedFiles
                         ELSE Append(generatedFiles, envFileName)
    /\ UNCHANGED <<argVars, op, dirs, disk, readerVars, structValue, source,
                   err, result, cliVars, camelVars>>

\* cfg.go 64-78 with the return statements of 81-120: nil and the error,
\* or the list and nil
Return ==
    /\ pc = "return"
    /\ result' = [files |-> IF err # Nil THEN <<>> ELSE generatedFiles,
                  err |-> err]
    /\ pc' = IF entry = "cli" THEN "report" ELSE "done"
    /\ UNCHANGED <<argVars, op, dirs, disk, handles, calls,
                   readerVars, structValue, source, generatedFiles, err,
                   cliVars, camelVars>>

\* main.go 45-52
Report ==
    /\ pc = "report"
    /\ IF result.err # Nil
       THEN /\ stdout' = Append(stdout, result.err)
            /\ exitCode' = 1
       ELSE /\ stdout' = stdout \o
                   [i \in 1..Len(result.files) |-> "created: " \o result.files[i]]
            /\ exitCode' = 0
    /\ pc' = "exited"
    /\ UNCHANGED <<argVars, op, dirs, disk, handles, calls,
                   readerVars, structValue, source, generatedFiles, err,
                   result, flagsErr, camelVars>>

---------------------------------------------------------------------------
(* The runs of the program: any caller, package, environment-file path     *)
(* and starting disk.                                                      *)

PackageNames == {"config", "appcfg"}

\* environment-file arguments: none, a file of its own, the sample file's
\* path, and the path of the main file to be generated
EnvFilePaths(p) == {"", ".env-local", envFileName, MainFilePath(p)}

\* "invalid", "var=value" (the lines of the package's own test)
TestLines ==
    << <<"i","n","v","a","l","i","d">>,
       <<"v","a","r","=","v","a","l","u","e">> >>
\* "DB_URL=x=y", "=v", "export a=1"
OddLines ==
    << <<"D","B","_","U","R","L","=","x","=","y">>,
       <<"=","v">>,
       <<"e","x","p","o","r","t"," ","a","=","1">> >>
EnvFiles == {<<>>, TestLines, OddLines}

OutputPaths(p) == {MainFilePath(p), UnitTestFilePath(p), envFileName}

\* a disk: the package directory there or not, earlier output there or not,
\* the environment file there (with some content) or not
InitDisk(p, f, dirThere, stale, src) ==
    [path \in OutputPaths(p) \cup ({f} \ {""}) |->
        IF path = f THEN src
        ELSE IF path = envFileName THEN (IF stale THEN Old ELSE Absent)
        ELSE IF dirThere /\ stale THEN Old ELSE Absent]

Init ==
    \E e \in {"cli", "api"}, p \in PackageNames, dirThere \in BOOLEAN,
       stale \in BOOLEAN :
      \E f \in EnvFilePaths(p), src \in {Absent} \cup {EnvSrc(ls) : ls \in EnvFiles} :
        /\ (f = "" => src = Absent)
        /\ (f = MainFilePath(p) /\ src # Absent => dirThere)
        /\ Start(e, p, f, "main", IF dirThere THEN {p} ELSE {},
                 InitDisk(p, f, dirThere, stale, src), <<>>, <<>>)

Next ==
    \/ ParseFlags \/ Run \/ ApiCall \/ GenerateConfigPackageAgain
    \/ Mkdir
    \/ CreateMainFile \/ OpenEnvFile
    \/ SynthBegin \/ SynthScanLine \/ SynthScanEnd \/ StructFromEnvFileReturn
    \/ ParseMainTemplate \/ ExecuteMainTemplate
    \/ ReadMainFile \/ FormatMainFile \/ WriteMainFile \/ CloseMainFile
    \/ CreateTestFile \/ ParseTestTemplate \/ ExecuteTestTemplate \/ CloseTestFile
    \/ CreateEnvFile \/ ParseEnvTemplate \/ ExecuteEnvTemplate \/ CloseEnvFile
    \/ Return \/ Report

Spec == Init /\ [][Next]_vars

\* GenerateConfigPackageFromEnvFile over every small environment file, on a
\* disk that holds nothing else
InitFromEnv ==
    \E ls \in EnvLineSeqs(MaxChars, MaxLines) :
        Start("api", "config", ".env-local", "main", {},
              InitDisk("config", ".env-local", FALSE, FALSE, EnvSrc(ls)),
              <<>>, <<>>)
NextFromEnv ==
    \/ GenerateConfigPackageFromEnvFile
    \/ Mkdir
    \/ CreateMainFile \/ OpenEnvFile
    \/ SynthBegin \/ SynthScanLine \/ SynthScanEnd \/ StructFromEnvFileReturn
    \/ ParseMainTemplate \/ ExecuteMainTemplate
    \/ ReadMainFile \/ FormatMainFile \/ WriteMainFile \/ CloseMainFile
    \/ CreateTestFile \/ ParseTestTemplate \/ ExecuteTestTemplate \/ CloseTestFile
    \/ Return
SpecFromEnv == InitFromEnv /\ [][NextFromEnv]_vars

---------------------------------------------------------------------------
(* Properties.                                                             *)

\* the operation has returned to its caller
Returned == op # "none" /\ pc \in {"done", "report", "exited"}

CallsNamed(names) == SelectSeq(calls, LAMBDA c : c[1] \in names)
NoCallNamed(names) == \A i \in 1..Len(calls) : calls[i][1] \notin names

\* C1: whenever GenerateConfigPackage succeeds for package P it returns
\* exactly <<"P/config.go", "P/config_test.go", ".env">>, and by then exactly
\* these three files have been created through the gateway, in that order.
C1_DefaultReturnsThreePaths ==
    (op = "default" /\ Returned /\ result.err = Nil) =>
        /\ result.files = <<packageName \o "/config.go",
                            packageName \o "/config_test.go", ".env">>
        /\ CallsNamed({"Create"}) =
               <<<<"Create", packageName \o "/config.go", Nil>>,
                 <<"Create", packageName \o "/config_test.go", Nil>>,
                 <<"Create", ".env", Nil>>>>

C1_Witness ==
    /\ op = "default" /\ pc = "done" /\ result.err = Nil
    /\ Len(result.files) = 3

\* a Mkdir call failed with an error other than "already exists"
MkdirFailedWith(e) ==
    /\ e \notin {Nil, "file exists"}
    /\ \E i \in 1..Len(calls) : calls[i] = <<"Mkdir", packageName, e>>

\* C3: in both operations, if Mkdir of the package directory fails with an
\* error that is not "already exists", no Create, Open, ReadFile or
\* WriteFile call is made, the path list returned is nil and the error is
\* "creating dir <package>: <cause>".
C3_MkdirFailureAborts ==
    \A e \in {"mkdir error", "file exists", Nil} :
        MkdirFailedWith(e) =>
            /\ NoCallNamed({"Create", "Open", "ReadFile", "WriteFile"})
            /\ pc \in {"return", "done", "report", "exited"}
            /\ Returned =>
                  /\ result.files = <<>>
                  /\ result.err = "creating dir " \o packageName \o ": " \o e

C3_Witness ==
    /\ MkdirFailedWith("mkdir error") /\ Returned /\ op = "fromEnv"
    /\ result.err = "creating dir " \o packageName \o ": mkdir error"

\* the Open of the source environment file failed
OpenFailedWith(e) ==
    /\ e # Nil
    /\ \E i \in 1..Len(calls) : calls[i] = <<"Open", envFile, e>>

\* C4: in GenerateConfigPackageFromEnvFile, if opening the source
\* environment file fails, no line reader is constructed or scanned, no
\* template is parsed or executed, the formatter is not invoked, the test
\* file is not created, and the error returned is
\* "opening env file <path>: <cause>".
C4_OpenFailureAborts ==
    \A e \in {"open error", "no such file"} :
        OpenFailedWith(e) =>
            /\ NoCallNamed({"lr", "Scan", "Text", "Err", "Parse", "Execute",
                            "Source"})
            /\ \A i \in 1..Len(calls) :
                  calls[i][1] = "Create" =>
                      calls[i][2] # packageName \o "/config_test.go"
            /\ Returned =>
                  /\ result.files = <<>>
                  /\ result.err = "opening env file " \o envFile \o ": " \o e

C4_Witness ==
    /\ OpenFailedWith("open error") /\ Returned /\ op = "fromEnv"
    /\ result.err = "opening env file " \o envFile \o ": open error"

\* C2: GenerateConfigPackageFromEnvFile(path) with a non-empty path returns
\* exactly <<"P/config.go", "P/config_test.go">> when it succeeds, and in no
\* run of it is ".env" created or written, nor the file at path written.
C2_FromEnvFileLeavesInputs ==
    (op = "fromEnv" /\ envFile # "") =>
        /\ (Returned /\ result.err = Nil) =>
               result.files = <<packageName \o "/config.go",
                                packageName \o "/config_test.go">>
        /\ \A i \in 1..Len(calls) :
               calls[i][1] \in {"Create", "WriteFile"} =>
                   calls[i][2] \notin {".env", envFile}
        /\ disk[".env"] = disk0[".env"]
        /\ disk[envFile] = disk0[envFile]

\* C2, the part of it that does hold: the same with the source environment
\* file at a path of its own.
C2_HoldsForOtherPaths ==
    envFile \notin {packageName \o "/config.go", packageName \o "/config_test.go"}
        => C2_FromEnvFileLeavesInputs

---------------------------------------------------------------------------

CountSep(s, sep) == Cardinality({i \in 1..Len(s) : s[i] = sep})

\* C5 as stated: the synthesizer emits no field declaration for a line
\* that does not contain exactly one '='.
C5_NoFieldUnlessOneEq ==
    [][(index' = index + 1 /\ CountSep(lines[index'], "=") # 1) => sb' = sb]_vars

\* the text of line before its first '=' is k
KeyOfLine(line, k) ==
    /\ Len(k) < Len(line)
    /\ SubSeq(line, 1, Len(k)) = k
    /\ line[Len(k) + 1] = "="
    /\ CountSep(k, "=") = 0

\* C5 amended: the synthesizer emits no field declaration for a line with
\* no '=', and exactly one, keyed by the text before the first '=', for a
\* line with one or more '='; "invalid", "var=value" give the one field Var.
C5_FieldIffSomeEq ==
    /\ FieldsOfLine(TestLines[1]) \o FieldsOfLine(TestLines[2]) =
           <<[kind |-> "field", name |-> <<"V","a","r">>, typ |-> "interface{}",
              key |-> <<"v","a","r">>]>>
    /\ [][index' = index + 1 =>
             LET line == lines[index'] IN
             IF CountSep(line, "=") = 0 THEN sb' = sb
             ELSE /\ Len(sb') = Len(sb) + 1
                  /\ SubSeq(sb', 1, Len(sb)) = sb
                  /\ sb'[Len(sb')].kind = "field"
                  /\ KeyOfLine(line, sb'[Len(sb')].key)]_vars

C5_Witness ==
    /\ pc = "synthRet"
    /\ delivered = <<<<"a", "=", "=">>>>
    /\ Len(SelectSeq(sb, LAMBDA l : l.kind = "field")) = 1

\* C8: every field the synthesizer emits has a non-empty identifier, and
\* fields with equal keys have equal identifiers.
C8_IdentifierNonEmpty ==
    \A i \in 1..Len(sb) :
        sb[i].kind = "field" =>
            /\ sb[i].name # <<>>
            /\ \A j \in 1..Len(sb) :
                  (sb[j].kind = "field" /\ sb[j].key = sb[i].key)
                      => sb[j].name = sb[i].name

---------------------------------------------------------------------------

\* s[i] is a letter with no letter between it and the last character of
\* starts before it (or the start of s)
FirstLetterSince(s, i, starts) ==
    /\ IsCased(s[i])
    /\ \A j \in 1..(i - 1) :
          IsCased(s[j]) => \E k \in j..(i - 1) : s[k] \in starts

\* s without '_', its letters upper-cased where first since starts and
\* lower-cased elsewhere
RECURSIVE Capitalized(_, _, _)
Capitalized(s, i, starts) ==
    IF i > Len(s) THEN <<>>
    ELSE (IF s[i] = "_" THEN <<>>
          ELSE IF FirstLetterSince(s, i, starts) THEN <<UpperChar(s[i])>>
          ELSE <<LowerChar(s[i])>>) \o Capitalized(s, i + 1, starts)

C9_Examples ==
    /\ toCamelCase(<<"s","a","m","p","l","e","_","e","n","v","_","v","a","r">>)
           = <<"S","a","m","p","l","e","E","n","v","V","a","r">>
    /\ toCamelCase(<<"a">>) = <<"A">>
    /\ toCamelCase(<<>>) = <<>>

\* C9 as stated: toCamelCase(s) is the tokens of s between '_', each
\* lower-cased with only its first letter capitalized, joined; it holds no
\* '_', and the examples hold.
C9_FirstLetterOfToken ==
    pc = "camelRet" =>
        /\ camelOut = Capitalized(camelIn, 1, {"_"})
        /\ CountSep(camelOut, "_") = 0
        /\ C9_Examples

\* C9 amended: each token is lower-cased and the first letter of every word
\* of it is capitalized, a space ending a word.
C9_FirstLetterOfWord ==
    pc = "camelRet" =>
        /\ camelOut = Capitalized(camelIn, 1, {"_", " "})
        /\ CountSep(camelOut, "_") = 0
        /\ C9_Examples

C9_Witness ==
    /\ pc = "camelRet"
    /\ camelIn = <<"B", "_", "a", " ", "a">>
    /\ camelOut = <<"B", "A", " ", "A">>

---------------------------------------------------------------------------

CreatedLines(files) == [i \in 1..Len(files) |-> "created: " \o files[i]]

\* the command line dispatches on the env-file option
C6_Dispatch ==
    (entry = "cli" /\ op # "none") => (op = "fromEnv" <=> envFile # "")

\* C6 as stated: the CLI dispatches to the environment-file operation iff
\* the env-file option is non-empty; the process exits with code 0 exactly
\* when generation succeeds, printing "created: <path>" per returned path in
\* order; on any error (flag parsing or generation) it exits with code 1
\* with the error message printed and no "created:" line.
C6_ExitZeroIffGenerated ==
    /\ C6_Dispatch
    /\ (entry = "cli" /\ pc = "exited") =>
          /\ exitCode = 0 <=> (op # "none" /\ result.err = Nil)
          /\ exitCode = 0 => stdout = CreatedLines(result.files)
          /\ exitCode # 0 =>
                /\ exitCode = 1
                /\ stdout = <<IF op = "none" THEN flagsErr ELSE result.err>>

\* C6 amended: the dispatch as stated.  When the flags parse, the process
\* exits with code 0 exactly when generation succeeds, printing
\* "created: <path>" per returned path in order, and on a generation error
\* exits with code 1 with the error message printed and no "created:" line.
\* When they do not, nothing is generated or printed as created; main exits
\* with code 0 if the error is flags.ErrHelp and 1 otherwise, and prints the
\* error only if it is a flags.ErrorType value.
C6_ExitCodes ==
    /\ C6_Dispatch
    /\ (entry = "cli" /\ pc = "exited") =>
          IF flagsErr = Nil
          THEN /\ op # "none"
               /\ exitCode = 0 <=> result.err = Nil
               /\ result.err = Nil => stdout = CreatedLines(result.files)
               /\ result.err # Nil => (exitCode = 1 /\ stdout = <<result.err>>)
          ELSE /\ op = "none" /\ calls = <<>>
               /\ exitCode = (IF flagsErr = "ErrHelp" THEN 0 ELSE 1)
               /\ stdout = (IF flagsErr \in {"ErrHelp", "ErrRequired"}
                            THEN <<flagsErr>> ELSE <<>>)

C6_Witness ==
    /\ entry = "cli" /\ pc = "exited" /\ exitCode = 0
    /\ op = "fromEnv" /\ envFile = ".env-local"
    /\ stdout = <<"created: " \o packageName \o "/config.go",
                  "created: " \o packageName \o "/config_test.go">>

---------------------------------------------------------------------------

Steps == [i \in 1..Len(calls) |-> <<calls[i][1], calls[i][2]>>]

\* n times Scan, Text
RECURSIVE ScanSteps(_)
ScanSteps(n) ==
    IF n = 0 THEN <<>> ELSE <<<<"Scan", "">>, <<"Text", "">>>> \o ScanSteps(n - 1)

\* the steps of a run without a failure, by operation and arguments
StepsOfSuccess ==
    LET main == packageName \o "/config.go"
        test == packageName \o "/config_test.go"
    IN  <<<<"Mkdir", packageName>>, <<"Create", main>>>>
        \o (IF op = "fromEnv" /\ envFile # ""
            THEN <<<<"Open", envFile>>, <<"lr", envFile>>>>
                 \o ScanSteps(Len(lines))
                 \o <<<<"Scan", "">>, <<"Err", "">>, <<"Close", envFile>>>>
            ELSE <<>>)
        \o <<<<"Parse", "configReaderMainFile">>,
             <<"Execute", "configReaderMainFile">>,
             <<"ReadFile", main>>, <<"Source", main>>, <<"WriteFile", main>>,
             <<"Close", main>>,
             <<"Create", test>>, <<"Parse", "configReaderUnitTestFile">>,
             <<"Execute", "configReaderUnitTestFile">>, <<"Close", test>>>>
        \o (IF op = "default"
            THEN <<<<"Create", ".env">>, <<"Parse", "envFile">>,
                   <<"Execute", "envFile">>, <<"Close", ".env">>>>
            ELSE <<>>)

FilesOfSuccess ==
    <<packageName \o "/config.go", packageName \o "/config_test.go">>
        \o (IF op = "default" THEN <<".env">> ELSE <<>>)

\* both operations go the same way whatever Mkdir found
C7_SameSteps ==
    /\ (Returned /\ result.err = Nil) =>
          /\ result.files = FilesOfSuccess
          /\ Steps = StepsOfSuccess
    /\ (Len(calls) > 0 /\ calls[1][3] \in {Nil, "file exists"}) =>
          /\ pc # "mkdir"
          /\ Len(calls) = 1 => (pc = "createMain" /\ err = Nil)
          /\ Len(calls) > 1 =>
                 Steps[2] = <<"Create", packageName \o "/config.go">>

\* C7 as stated: the gateway's Mkdir does not report "already exists" as
\* an error, so that both operations run on an existing package directory
\* go through the same steps and return the same list as on a fresh one.
C7_MkdirIdempotent ==
    /\ \A i \in 1..Len(calls) :
          calls[i][1] = "Mkdir" => calls[i][3] # "file exists"
    /\ C7_SameSteps

\* C7 amended: the gateway's Mkdir reports "already exists" as an error on
\* an existing directory (and only there); the generator ignores that
\* error, so that both operations run on an existing package directory go
\* through the same steps and return the same list as on a fresh one.
C7_ExistsIgnored ==
    /\ \A i \in 1..Len(calls) :
          (calls[i][1] = "Mkdir" /\ calls[i][3] = "file exists")
              => packageName \in dirs
    /\ C7_SameSteps

C7_Witness ==
    /\ Returned /\ result.err = Nil /\ op = "default"
    /\ calls[1] = <<"Mkdir", packageName, "file exists">>
    /\ Len(result.files) = 3

---------------------------------------------------------------------------

\* the error the operation returns when the call c failed
WrappedError(c) ==
    CASE c[1] = "Mkdir" -> "creating dir " \o c[2] \o ": " \o c[3]
      [] c[1] = "Create" -> "creating file " \o c[2] \o ": " \o c[3]
      [] c[1] = "Open" -> "opening env file " \o c[2] \o ": " \o c[3]
      [] c[1] = "Err" -> "generating struct from env file " \o envFile
                             \o ": scanning: " \o c[3]
      [] c[1] = "Parse" -> "parsing template " \o c[2] \o ": " \o c[3]
      [] c[1] = "Execute" -> "executing template " \o c[2] \o ": " \o c[3]
      [] c[1] = "ReadFile" -> "reading go file " \o c[2] \o ": " \o c[3]
      [] c[1] = "Source" -> "formating go file " \o c[2] \o ": " \o c[3]
      [] c[1] = "WriteFile" -> "writing go file " \o c[2] \o ": " \o c[3]

FailableSteps == {"Mkdir", "Create", "Open", "Err", "Parse", "Execute",
                  "ReadFile", "Source", "WriteFile"}

\* the failure of call i ends the run: only deferred Close calls follow it,
\* and the operation returns nil and the wrapped error
AbortsRun(i) ==
    /\ \A j \in (i + 1)..Len(calls) : calls[j][1] = "Close"
    /\ pc \notin {"mkdir", "createMain", "openEnv", "synth", "scan",
                  "parseMain", "execMain", "readMain", "format", "writeMain",
                  "createTest", "parseTest", "execTest", "createEnv",
                  "parseEnv", "execEnv"}
    /\ Returned =>
          /\ result.files = <<>>
          /\ result.err = WrappedError(calls[i])

\* C10 as stated: every failure reported by a step of either operation
\* (mkdir, create, open, scanning, template parse and execute, reading back,
\* formatting, writing) makes it return nil and the step's error wrapped
\* with the operation and the path or template name; nothing is retried or
\* recovered locally.
C10_EveryFailureAborts ==
    \A i \in 1..Len(calls) :
        (calls[i][1] \in FailableSteps /\ calls[i][3] # Nil) => AbortsRun(i)

\* C10 amended: the same of every failure but Mkdir's "already exists",
\* which the generator ignores.
C10_FailureAbortsButExists ==
    \A i \in 1..Len(calls) :
        (/\ calls[i][1] \in FailableSteps
         /\ calls[i][3] # Nil
         /\ ~(calls[i][1] = "Mkdir" /\ calls[i][3] = "file exists"))
            => AbortsRun(i)

C10_Witness ==
    /\ Returned /\ op = "fromEnv"
    /\ \E i \in 1..Len(calls) : calls[i] = <<"Err", "", "read error">>
    /\ result.files = <<>>
    /\ result.err = "generating struct from env file " \o envFile
                        \o ": scanning: read error"

---------------------------------------------------------------------------

\* a step failed: a call returned an error the generator does not ignore
Failed(c) ==
    /\ c[1] \in FailableSteps
    /\ c[3] # Nil
    /\ ~(c[1] = "Mkdir" /\ IsExist(c[3]))

\* the calls on the gateway (fileSystem), the renderer, the formatter and
\* the line reader: every call but the Close of a handle
NonClose(s) == SelectSeq(s, LAMBDA c : c[1] # "Close")

IsPrefix(a, b) == Len(a) <= Len(b) /\ SubSeq(b, 1, Len(a)) = a

\* where the first failed call is, Len(s) + 1 if there is none
FirstFailed(s) ==
    IF \E i \in 1..Len(s) : Failed(s[i])
    THEN CHOOSE i \in 1..Len(s) : Failed(s[i]) /\ \A j \in 1..(i - 1) : ~Failed(s[j])
    ELSE Len(s) + 1

\* C11: every run of either operation follows the order Init -> DirEnsured
\* -> MainFileWritten (create, render, format) -> TestFileWritten ->
\* (EnvFileWritten, default mode only) -> Done: the calls made before a
\* failure are the first calls of the failure-free run, in its order; the
\* main file is formatted and written back before the test file is created
\* and before a successful return; and once a step has failed no call on
\* the gateway, the renderer, the formatter or the line reader follows.
C11_LinearOrder ==
    LET made == NonClose(calls)
        k == FirstFailed(made)
        done == [i \in 1..(k - 1) |-> <<made[i][1], made[i][2]>>]
    IN  /\ IsPrefix(done, NonClose(StepsOfSuccess))
        /\ k >= Len(made)
        /\ k <= Len(made) => (err # Nil /\ (Returned => result.err # Nil))
        /\ \A i \in 1..Len(calls) :
              (calls[i][1] = "Create" /\ calls[i][2] = UnitTestFilePath(packageName))
                  => \E j \in 1..(i - 1) :
                        calls[j] = <<"WriteFile", MainFilePath(packageName), Nil>>
        /\ (Returned /\ result.err = Nil) =>
              /\ \E j \in 1..Len(calls) :
                    calls[j] = <<"Source", MainFilePath(packageName), Nil>>
              /\ Len(made) = Len(NonClose(StepsOfSuccess))

C11_Witness ==
    /\ Returned /\ op = "default"
    /\ \E i \in 1..Len(calls) :
          /\ calls[i] = <<"Source", MainFilePath(packageName), "source error">>
          /\ Len(calls) = i + 1
          /\ calls[i + 1][1] = "Close"
    /\ calls[1][3] = "file exists"

---------------------------------------------------------------------------

\* how many calls of that name on that path returned res
CountCalls(name, path, res) ==
    Cardinality({i \in 1..Len(calls) :
                    calls[i][1] = name /\ calls[i][2] = path /\ calls[i][3] \in res})

\* C12: when either operation returns, with the list or with an error,
\* every handle a successful Create or Open gave it in the run has been
\* closed: none is open, and each path was closed as often as it was
\* opened.
C12_HandlesClosed ==
    Returned =>
        /\ handles = {}
        /\ \A path \in DOMAIN disk :
              CountCalls("Close", path, {Nil, "close error"}) =
                  CountCalls("Create", path, {Nil}) + CountCalls("Open", path, {Nil})

C12_Witness ==
    /\ Returned /\ op = "fromEnv" /\ envFile = ".env-local"
    /\ result.err = "generating struct from env file .env-local: scanning: read error"
    /\ CountCalls("Open", envFile, {Nil}) = 1
    /\ CountCalls("Close", envFile, {Nil, "close error"}) = 1
    /\ CountCalls("Close", MainFilePath(packageName), {Nil, "close error"}) = 1
    /\ handles = {}

---------------------------------------------------------------------------

\* one field line per line of ls that holds a '=', in the order of ls: the
\* camel-cased key, the type interface{}, the key as written
RECURSIVE ExpectedFields(_)
ExpectedFields(ls) ==
    IF ls = <<>> THEN <<>>
    ELSE LET line == Head(ls) IN
         (IF HasSep(line, "=")
          THEN LET key == SubSeq(line, 1, FirstSep(line, "=") - 1) IN
               <<[kind |-> "field", name |-> toCamelCase(key),
                  typ |-> "interface{}", key |-> key]>>
          ELSE <<>>) \o ExpectedFields(Tail(ls))

ExpectedBlock(ls) ==
    <<SbLine("comment"), SbLine("open"), SbLine("todo")>>
        \o ExpectedFields(ls) \o <<SbLine("close")>>

\* the reader delivered every line and reported no fault
ScannedWithoutFault ==
    /\ delivered = lines
    /\ \E i \in 1..Len(calls) : calls[i] = <<"Err", "", Nil>>

\* C13: for every sequence of lines delivered without fault the synthesizer
\* returns the fixed header (comment, type Config struct {, TODO comment),
\* one field line per line that holds a '=', in input order and without
\* de-duplication, each with the camel-cased key, the type interface{} and
\* the key as written in its tag, then the closing brace; with no such line
\* the block has no field line; and in env-file mode the main file is
\* rendered with this block and not with the default struct.
C13_BlockOfValidLines ==
    /\ ScannedWithoutFault =>
          /\ structFromEnvFile = ExpectedBlock(lines)
          /\ (\A i \in 1..Len(lines) : ~HasSep(lines[i], "=")) =>
                 structFromEnvFile = <<SbLine("comment"), SbLine("open"),
                                       SbLine("todo"), SbLine("close")>>
    /\ (op = "fromEnv" /\ envFile # ""
            /\ disk[MainFilePath(packageName)].kind \in {"main", "mainFmt"}) =>
          /\ ScannedWithoutFault
          /\ disk[MainFilePath(packageName)].struct = ExpectedBlock(lines)
          /\ disk[MainFilePath(packageName)].struct # defaultConfigStructTemplate

C13_Witness ==
    /\ Returned /\ result.err = Nil /\ op = "fromEnv"
    /\ lines = <<<<"a", "=">>, <<"a", "=">>>>
    /\ disk[MainFilePath(packageName)].kind = "mainFmt"
    /\ disk[MainFilePath(packageName)].struct =
           <<SbLine("comment"), SbLine("open"), SbLine("todo"),
             FieldLine(<<"A">>, "interface{}", <<"a">>),
             FieldLine(<<"A">>, "interface{}", <<"a">>),
             SbLine("close")>>

---------------------------------------------------------------------------

\* the calls made on the line reader
ReaderCalls == CallsNamed({"Scan", "Text", "Err"})

\* C14: the synthesizer fails if and only if Err() is non-nil once Scan()
\* has returned false.  It calls Text() once after each Scan() that returned
\* true and never after one that returned false, and Err() once, after the
\* Scan() that returned false.  It has no other failure: whatever the lines
\* are, it returns the block and no error when Err() is nil.  On a fault it
\* returns the empty string and "scanning: <cause>", and the main template
\* is neither parsed nor executed.
C14_ScanProtocol ==
    LET rc == ReaderCalls IN
    /\ \A i \in 1..Len(rc) :
          /\ rc[i][1] = "Text" => (i > 1 /\ rc[i - 1] = <<"Scan", "", "true">>)
          /\ rc[i] = <<"Scan", "", "true">> =>
                 (i < Len(rc) /\ rc[i + 1][1] = "Text")
          /\ rc[i] = <<"Scan", "", "false">> =>
                 (i + 1 = Len(rc) /\ rc[i + 1][1] = "Err")
          /\ rc[i][1] = "Err" =>
                 (i = Len(rc) /\ i > 1 /\ rc[i - 1] = <<"Scan", "", "false">>
                    /\ rc[i][3] = lrErr)
    /\ Len(CallsNamed({"Text"})) = Len(delivered)
    /\ pc = "synthRet" =>
          /\ err # Nil <=> lrErr # Nil
          /\ err # Nil =>
                 (err = "scanning: " \o lrErr /\ structFromEnvFile = <<>>)
          /\ err = Nil =>
                 (Len(structFromEnvFile) >= 4 /\ structFromEnvFile = sb)
    /\ lrErr # Nil =>
          /\ NoCallNamed({"Parse", "Execute"})
          /\ disk[MainFilePath(packageName)].kind = "empty"
          /\ Returned =>
                 result.err = "generating struct from env file " \o envFile
                                  \o ": scanning: " \o lrErr

C14_Witness ==
    /\ Returned /\ lrErr = "read error"
    /\ lines = <<<<"a">>, <<"a", "=">>>>
    /\ delivered = <<<<"a">>>>
    /\ ReaderCalls = <<<<"Scan", "", "true">>, <<"Text", "", "">>,
                        <<"Scan", "", "false">>, <<"Err", "", "read error">>>>

---------------------------------------------------------------------------

\* what a step leaves in place
KeepsFiles ==
    /\ \A path \in DOMAIN disk :
          /\ disk[path].kind # "absent" => disk'[path].kind # "absent"
          /\ disk[path] # Old => disk'[path] # Old
    /\ dirs \subseteq dirs'
    /\ err # Nil => (disk' = disk /\ dirs' = dirs)
    /\ (Returned' /\ result'.err # Nil) => result'.files = <<>>

\* C15: neither operation ever deletes, renames or restores a file: no
\* path that holds a file loses it, no directory disappears, no path gets
\* back the older content a step has replaced, and after a
\* step has failed the disk stays as that step left it; the caller of a
\* failed run receives the nil list whatever was created.
C15_NoRollback == [][KeepsFiles]_vars

C15_Witness ==
    /\ Returned /\ op = "default" /\ packageName \in dirs
    /\ disk0[MainFilePath(packageName)].kind = "absent"
    /\ result.err = "executing template configReaderUnitTestFile: execute error"
    /\ result.files = <<>>
    /\ generatedFiles = <<MainFilePath(packageName)>>
    /\ disk[MainFilePath(packageName)].kind = "mainFmt"
    /\ disk[UnitTestFilePath(packageName)].kind = "partial"

---------------------------------------------------------------------------

\* C16: in GenerateConfigPackageFromEnvFile the main file is created
\* (truncated) before the environment file is opened and scanned; so when
\* the open or the scan fails, P/config.go is on disk with empty content,
\* nothing rendered or formatted into it, and P/config_test.go has not been
\* created.
C16_MainFileCreatedFirst ==
    LET main == MainFilePath(packageName)
        test == UnitTestFilePath(packageName)
    IN
    /\ \A i \in 1..Len(calls) :
          calls[i][1] \in {"Open", "lr", "Scan", "Text", "Err"} =>
              \E j \in 1..(i - 1) : calls[j] = <<"Create", main, Nil>>
    /\ (op = "fromEnv" /\ ((\E e \in {"open error", "no such file"} :
                                OpenFailedWith(e)) \/ lrErr # Nil)) =>
          /\ disk[main] = Empty
          /\ NoCallNamed({"Parse", "Execute", "ReadFile", "Source", "WriteFile"})
          /\ \A i \in 1..Len(calls) :
                calls[i][1] = "Create" => calls[i][2] # test
          /\ disk[test] = disk0[test]

C16_Witness ==
    /\ Returned /\ op = "fromEnv" /\ envFile = ".env-local"
    /\ OpenFailedWith("no such file")
    /\ disk0[MainFilePath(packageName)] = Old
    /\ disk[MainFilePath(packageName)] = Empty
    /\ disk[UnitTestFilePath(packageName)] = Old

---------------------------------------------------------------------------

\* the operations of the gateway that can fail, Close apart
GatewaySteps == {"Mkdir", "Create", "Open", "ReadFile", "WriteFile"}

\* what the operation returns is decided by the calls other than Close:
\* the list, when none of them failed, the error of the first that did
\* otherwise
CloseDiscarded ==
    Returned =>
        LET k == FirstFailed(calls) IN
        IF k > Len(calls)
        THEN result.err = Nil /\ result.files = FilesOfSuccess
        ELSE result.err = WrappedError(calls[k]) /\ result.files = <<>>

\* C17 as stated: a failure of Close on any handle is discarded and never
\* changes the result; Close is the only failure of the gateway that does
\* not abort the run.
C17_OnlyCloseDiscarded ==
    /\ CloseDiscarded
    /\ \A i \in 1..Len(calls) :
          (calls[i][1] \in GatewaySteps /\ calls[i][3] # Nil) => AbortsRun(i)

\* C17 amended: a failure of Close on any handle is discarded and never
\* changes the result; Close and the "already exists" of Mkdir are the only
\* failures of the gateway that do not abort the run.
C17_CloseAndExistsDiscarded ==
    /\ CloseDiscarded
    /\ \A i \in 1..Len(calls) :
          (/\ calls[i][1] \in GatewaySteps
           /\ calls[i][3] # Nil
           /\ ~(calls[i][1] = "Mkdir" /\ IsExist(calls[i][3])))
              => AbortsRun(i)
    /\ \A i \in 1..Len(calls) :
          (calls[i][1] = "Mkdir" /\ IsExist(calls[i][3])) =>
              IF i = Len(calls) THEN pc = "createMain" /\ err = Nil
              ELSE calls[i + 1][1] = "Create"

C17_Witness ==
    /\ Returned /\ op = "default" /\ result.err = Nil
    /\ Len(result.files) = 3
    /\ CountCalls("Close", MainFilePath(packageName), {"close error"}) = 1
    /\ CountCalls("Close", UnitTestFilePath(packageName), {"close error"}) = 1
    /\ CountCalls("Close", envFileName, {"close error"}) = 1

---------------------------------------------------------------------------

\* what a run without a failure leaves at each of its output paths
Generated(path) ==
    IF path = MainFilePath(packageName)
    THEN File("mainFmt", packageName,
              IF op = "fromEnv" /\ envFile # "" THEN ExpectedBlock(lines)
              ELSE defaultConfigStructTemplate, <<>>)
    ELSE IF path = UnitTestFilePath(packageName)
    THEN File("test", packageName, <<>>, <<>>)
    ELSE File("sample", "", <<>>, <<>>)

OutputsOf(o) ==
    {MainFilePath(packageName), UnitTestFilePath(packageName)}
        \cup (IF o = "default" THEN {envFileName} ELSE {})

\* C18: the output files are created with no check of what is there: each
\* is made by one Create call as the run's first call on its path, and
\* after a run without a failure each holds the generated content whatever
\* the path held before; so GenerateConfigPackage run a second time on
\* what a first run left leaves the same three files with the same content.
C18_OutputsReplaced ==
    /\ \A path \in OutputsOf(op) :
          \A i \in 1..Len(calls) :
              (calls[i][2] = path /\ calls[i][1] # "Create") =>
                  \E j \in 1..(i - 1) : calls[j] = <<"Create", path, Nil>>
    /\ (Returned /\ result.err = Nil) =>
          /\ \A path \in OutputsOf(op) :
                /\ CountCalls("Create", path, {Nil}) = 1
                /\ disk[path] = Generated(path)
          /\ (op = "default"
                 /\ \A path \in OutputsOf(op) : disk0[path] = Generated(path))
                => disk = disk0

C18_Witness ==
    /\ Returned /\ result.err = Nil /\ op = "default"
    /\ disk0[MainFilePath(packageName)].kind = "mainFmt"
    /\ disk0[UnitTestFilePath(packageName)].kind = "test"
    /\ disk0[envFileName].kind = "sample"
    /\ CountCalls("Create", envFileName, {Nil}) = 1
    /\ disk = disk0

====
